---- MODULE Spec2Model ----
(***************************************************************************)
(* A model of bevy_ecs's procedural macros (crates/bevy_ecs/macros/src/    *)
(* lib.rs) and of the ECS core the generated code talks to.                *)
(*                                                                         *)
(* The module holds several specifications over one set of variables, one  *)
(* per subsystem; a subsystem's specification leaves the other subsystems' *)
(* variables at their initial values.                                      *)
(*   SpecBundle   : derive(Bundle) and the generated Bundle impl           *)
(*   SpecParamSet : a system's parameter initialisation and ParamSet       *)
(*   SpecAccess   : Access sets and conflicts_with                         *)
(*   SpecStore    : the archetype store: spawn, insert, remove, despawn    *)
(*   SpecBatch    : batch_and_prepare_binned_render_phase                  *)
(*   SpecSystemParam : derive(SystemParam) and the code it generates       *)
(*   SpecAllTuples   : the all_tuples! macro                               *)
(***************************************************************************)
EXTENDS Integers, Sequences, FiniteSets, TLC

(***************************************************************************)
(* Bounds of the model.                                                    *)
(***************************************************************************)
\* The longest field list of a struct handed to derive(Bundle).
MaxFields == 2
\* The ComponentIds an Access set can name: 1..MaxComponentId.
MaxComponentId == 2
\* How many parameters a system initialises before its ParamSet.
MaxPrior == 2
\* How many sub-parameters the ParamSet of the model holds (at most max_params).
MaxSetParams == 2
\* Entity indices the store may allocate: 1..MaxEntities.
MaxEntities == 2
\* despawn is no longer tried on an index whose generation reached this.
MaxGeneration == 1
\* The largest start and end given to all_tuples!, and the most identifiers.
MaxTupleEnd == 3
MaxIdents == 2
\* The most fields of a struct derive(SystemParam) is applied to.
MaxParamFields == 3
\* The most entities one bin of the render phase holds.
MaxBinEntities == 3
\* How many accessor calls may be in flight at once before the model stops
\* issuing more (only a weakened borrow rule gets past one).
MaxLive == 2

VARIABLES
    \* ---- derive(Bundle) ----
    decls,        \* struct name -> the DeriveInput handed to derive(Bundle)
    impls,        \* struct name -> what derive_bundle emitted for it
    target,       \* the bundle type the calls below are made on
    components,   \* the Components registry: position = ComponentId
    bundle,       \* the bundle value handed to get_components
    ids,          \* what component_ids returned
    sunk,         \* the values get_components handed to its sink, in order
    casts,        \* per pull of from_components: <<type pulled, type read as>>
    rebuilt,      \* the struct from_components built
    done,         \* which of the calls have been made
    \* ---- a system's parameters, ParamSet ----
    system_meta,  \* SystemMeta: component_access_set, archetype_component_access
    n_prior,      \* how many parameters were initialised before the ParamSet
    meta_before,  \* system_meta as ParamSetState::init found it
    set_params,   \* the sub-parameters P0.. of the ParamSet
    set_status,   \* "none", "ok" (state produced) or "panicked"
    param_states, \* ParamSetState.0: one state per sub-parameter
    param_set,    \* whether get_param has produced the ParamSet item
    live,         \* the accessor calls whose returned item is still alive
    \* ---- Access ----
    accA, accB,   \* two Access sets
    verdict,      \* what conflicts_with(accA, accB) last returned
    \* ---- the archetype store ----
    world,        \* entities (per index: generation, alive, location), archetypes
    issued,       \* every Entity handle spawn has returned
    despawned,    \* the handles despawn has succeeded on
    assigned,     \* per index: the component set last assigned to its entity
    last_op,      \* the last operation made with a handle, and how it ended
    \* ---- batch_and_prepare_binned_render_phase ----
    bins,         \* phase.batchable_values, in the order of phase.batchable_keys
    unbatchables, \* the entities of the phase's unbatchable key
    buffer,       \* the BatchedInstanceBuffer: current dynamic offset, fill, pushes
    stage,        \* "batchable", "unbatchable" or "done"
    key_i,        \* the key the outer loop is at
    ent_i,        \* the entity the inner loop is at
    batch_set,    \* the batch set of the bin being prepared
    batch_sets,   \* phase.batch_sets
    buffer_indices, \* unbatchables.buffer_indices
    pushes,       \* every buffer.push made: bin, entity and the instance returned
    skipped,      \* the entities get_binned_batch_data had no data for
    \* ---- derive(SystemParam) ----
    sp_ast,       \* the DeriveInput: the kind of item and its fields
    sp_gen,       \* what derive_system_param collected for the generated code
    sp_state,     \* FetchState.state after init: one element per tuple member
    sp_item,      \* the struct get_param returned
    sp_pc,        \* "input", "rejected", "derived", "compile_error", "compiled",
                  \* "initialised" or "got"
    \* ---- all_tuples! ----
    at_input,     \* the parsed AllTuples
    at_output,    \* the invocations emitted, in order
    at_pc         \* "input", "expanded" or "panicked"

bundleVars == <<decls, impls, target, components, bundle, ids, sunk, casts,
                rebuilt, done>>
paramVars == <<system_meta, n_prior, meta_before, set_params, set_status,
               param_states, param_set, live>>
accessVars == <<accA, accB, verdict>>
storeVars == <<world, issued, despawned, assigned, last_op>>
batchVars == <<bins, unbatchables, buffer, stage, key_i, ent_i, batch_set,
               batch_sets, buffer_indices, pushes, skipped>>

sysParamVars == <<sp_ast, sp_gen, sp_state, sp_item, sp_pc>>

tuplesVars == <<at_input, at_output, at_pc>>

vars == <<bundleVars, paramVars, accessVars, storeVars, batchVars, sysParamVars,
          tuplesVars>>

(***************************************************************************)
(* derive(Bundle): the input.                                              *)
(***************************************************************************)
\* The structs of the program: Outer may flatten Inner with #[bundle].
Names == {"Inner", "Outer"}
\* The component types fields are made of.
CompTypes == {"A", "B"}
\* The payloads a component value can carry: enough to tell two values of
\* one type apart.
Data == {1, 2}
\* syn::Data: derive can be put on a struct, an enum or a union.
Kinds == {"Struct", "Enum", "Union"}

\* A field as derive_bundle_impl sees it: (is_bundle, field.ty); the member
\* (ident or tuple index) is the field's position in the struct.
PlainFields == [is_bundle : {FALSE}, ty : CompTypes]
BundleFields == [is_bundle : {TRUE}, ty : {"Inner"}]

RECURSIVE SeqsUpTo(_, _)
SeqsUpTo(S, n) ==
    IF n = 0 THEN {<<>>}
    ELSE LET shorter == SeqsUpTo(S, n - 1)
         IN shorter \cup {Append(s, x) : s \in {t \in shorter : Len(t) = n - 1}, x \in S}

\* The DeriveInputs a struct name can stand for.  An enum or a union has no
\* `fields` of a DataStruct; its variants play no part in the macro.
DeriveInputs(name) ==
    LET F == IF name = "Inner" THEN PlainFields ELSE PlainFields \cup BundleFields
    IN [kind : {"Struct"}, fields : SeqsUpTo(F, MaxFields)]
       \cup [kind : {"Enum", "Union"}, fields : {<<>>}]

(***************************************************************************)
(* derive_bundle_impl: the three token lists and the emitted impl.         *)
(***************************************************************************)
\* lib.rs 113-121: only a struct with at least one field is accepted.
Mut_Accepted(input) == input.kind = "Struct"
Accepted(input) == input.kind = "Struct" /\ input.fields # <<>>

\* lib.rs 145-167, field_component_ids: one statement per field, in field order.
FieldComponentIds(fields) ==
    [i \in 1 .. Len(fields) |->
        [op |-> IF fields[i].is_bundle THEN "extend" ELSE "push", ty |-> fields[i].ty]]

\* A derive that emits the nested bundles' statements after the plain fields'.
Mut_FieldGetComponents(fields) ==
    LET n == Len(fields)
        plain == {i \in 1 .. n : ~fields[i].is_bundle}
        Rank(i) == IF i \in plain
                   THEN Cardinality({j \in plain : j <= i})
                   ELSE Cardinality(plain) + Cardinality({j \in (1 .. n) \ plain : j <= i})
    IN [k \in 1 .. n |->
          LET i == CHOOSE j \in 1 .. n : Rank(j) = k
          IN [op |-> IF fields[i].is_bundle THEN "nested" ELSE "make", field |-> i]]
\* lib.rs 145-167, field_get_components.
FieldGetComponents(fields) ==
    [i \in 1 .. Len(fields) |->
        [op |-> IF fields[i].is_bundle THEN "nested" ELSE "make", field |-> i]]

\* A derive that writes the struct expression's fields last to first.
Mut_FieldFromComponents(fields) ==
    LET n == Len(fields)
    IN [k \in 1 .. n |->
          [op |-> IF fields[n + 1 - k].is_bundle THEN "nested" ELSE "read",
           field |-> n + 1 - k, ty |-> fields[n + 1 - k].ty]]
\* lib.rs 145-167, field_from_components.
FieldFromComponents(fields) ==
    [i \in 1 .. Len(fields) |->
        [op |-> IF fields[i].is_bundle THEN "nested" ELSE "read",
         field |-> i, ty |-> fields[i].ty]]

NoImpl(st) == [status |-> st, cid_code |-> <<>>, get_code |-> <<>>, from_code |-> <<>>]

\* lib.rs 104-201: derive_bundle.  An error becomes a compile_error!() and
\* nothing else is emitted; otherwise the impl holds the three lists.
derive_bundle(input) ==
    IF ~Accepted(input) THEN NoImpl("error")
    ELSE [status |-> "ok",
          cid_code |-> FieldComponentIds(input.fields),
          get_code |-> FieldGetComponents(input.fields),
          from_code |-> FieldFromComponents(input.fields)]

(***************************************************************************)
(* The generated impl, run.                                                *)
(***************************************************************************)
\* Components::init_component: the id of a registered type, or a fresh one.
init_component(comps, ty) ==
    IF \E i \in 1 .. Len(comps) : comps[i] = ty
    THEN [components |-> comps, id |-> CHOOSE i \in 1 .. Len(comps) : comps[i] = ty]
    ELSE [components |-> Append(comps, ty), id |-> Len(comps) + 1]

\* lib.rs 175-182: component_ids runs the statements of cid_code in order.
\* st = [components, ids].
RECURSIVE RunComponentIds(_, _, _)
RunComponentIds(im, code, st) ==
    IF code = <<>> THEN st
    ELSE LET s == Head(code)
             st1 == IF s.op = "push"
                    THEN LET r == init_component(st.components, s.ty)
                         IN [components |-> r.components, ids |-> Append(st.ids, r.id)]
                    ELSE RunComponentIds(im, im[s.ty].cid_code, st)
         IN RunComponentIds(im, Tail(code), st1)

\* lib.rs 195-197: get_components runs the statements of get_code in order;
\* the result is the sequence of values handed to func.
RECURSIVE RunGetComponents(_, _, _)
RunGetComponents(im, code, self) ==
    IF code = <<>> THEN <<>>
    ELSE LET s == Head(code)
             f == self[s.field]
             out == IF s.op = "make" THEN <<f>>
                    ELSE RunGetComponents(im, im[f.ty].get_code, f.fields)
         IN out \o RunGetComponents(im, Tail(code), self)

\* lib.rs 185-192: from_components evaluates the struct expression's fields in
\* the order written.  st = [stream, casts, set]: what func has left to give,
\* the pulls so far, and the members built so far as <<member, value>>.
RECURSIVE RunFromComponents(_, _, _)
RunFromComponents(im, code, st) ==
    IF code = <<>> THEN st
    ELSE LET s == Head(code)
             st1 ==
               IF s.op = "read"
               THEN LET p == Head(st.stream)
                    IN [stream |-> Tail(st.stream),
                        casts |-> Append(st.casts, <<p.ty, s.ty>>),
                        set |-> st.set \cup
                                  {<<s.field, [ty |-> s.ty, v |-> p.v, fields |-> <<>>]>>}]
               ELSE LET r == RunFromComponents(im, im[s.ty].from_code,
                                 [stream |-> st.stream, casts |-> st.casts, set |-> {}])
                    IN [stream |-> r.stream, casts |-> r.casts,
                        set |-> st.set \cup
                                  {<<s.field, [ty |-> s.ty, v |-> 0,
                                               fields |-> [i \in 1 .. Cardinality(r.set) |->
                                                   (CHOOSE q \in r.set : q[1] = i)[2]]]>>}]
         IN RunFromComponents(im, Tail(code), st1)

\* The struct a finished struct expression denotes.
StructOf(set) == [i \in 1 .. Cardinality(set) |-> (CHOOSE q \in set : q[1] = i)[2]]

\* How many values from_components pulls for a bundle type.
RECURSIVE Pulls(_, _)
Pulls(im, code) ==
    IF code = <<>> THEN 0
    ELSE (IF Head(code).op = "read" THEN 1 ELSE Pulls(im, im[Head(code).ty].from_code))
         + Pulls(im, Tail(code))

(***************************************************************************)
(* Bundle values.                                                          *)
(***************************************************************************)
RECURSIVE FieldValues(_, _)
RECURSIVE StructValues(_, _)
FieldValues(ds, f) ==
    IF f.is_bundle
    THEN {[ty |-> f.ty, v |-> 0, fields |-> s] : s \in StructValues(ds, ds[f.ty].fields)}
    ELSE {[ty |-> f.ty, v |-> d, fields |-> <<>>] : d \in Data}
StructValues(ds, fields) ==
    IF fields = <<>> THEN {<<>>}
    ELSE {<<h>> \o t : h \in FieldValues(ds, Head(fields)),
                       t \in StructValues(ds, Tail(fields))}

\* The bundle types a struct's impl calls into.
Uses(name) == {decls[name].fields[i].ty :
                  i \in {j \in 1 .. Len(decls[name].fields) : decls[name].fields[j].is_bundle}}
\* The program compiles as far as `name` goes: its impl and those it uses exist.
Usable(name) == /\ impls[name].status = "ok"
                /\ \A u \in Uses(name) : impls[u].status = "ok"

(***************************************************************************)
(* SpecBundle: the actions.                                                *)
(***************************************************************************)
BundleStart ==
    /\ decls \in {d \in [Names -> UNION {DeriveInputs(n) : n \in Names}] :
                     \A n \in Names : d[n] \in DeriveInputs(n)}
    /\ impls = [n \in Names |-> NoImpl("pending")]
    /\ target \in Names
    /\ components \in {<<>>, <<"B">>}
    /\ bundle = <<>>
    /\ ids = <<>>
    /\ sunk = <<>>
    /\ casts = <<>>
    /\ rebuilt = <<>>
    /\ done = {}

\* The bundle subsystem at rest (under the other specifications).
BundleIdle ==
    /\ decls = [n \in Names |-> [kind |-> "Struct", fields |-> <<>>]]
    /\ impls = [n \in Names |-> NoImpl("pending")]
    /\ target = "Inner"
    /\ components = <<>>
    /\ bundle = <<>> /\ ids = <<>> /\ sunk = <<>> /\ casts = <<>> /\ rebuilt = <<>>
    /\ done = {}

BundleFrame ==
    UNCHANGED <<paramVars, accessVars, storeVars, batchVars, sysParamVars, tuplesVars>>

\* The compiler expands derive(Bundle) on struct `name`.
DeriveBundle(name) ==
    /\ impls[name].status = "pending"
    /\ impls' = [impls EXCEPT ![name] = derive_bundle(decls[name])]
    /\ UNCHANGED <<decls, target, components, bundle, ids, sunk, casts, rebuilt, done>>
    /\ BundleFrame

\* The store asks the target bundle type for its component ids.
CallComponentIds ==
    /\ Usable(target)
    /\ "component_ids" \notin done
    /\ LET r == RunComponentIds(impls, impls[target].cid_code,
                                [components |-> components, ids |-> <<>>])
       IN /\ components' = r.components
          /\ ids' = r.ids
    /\ done' = done \cup {"component_ids"}
    /\ UNCHANGED <<decls, impls, target, bundle, sunk, casts, rebuilt>>
    /\ BundleFrame

\* A bundle value of the target type is taken apart.
CallGetComponents ==
    /\ Usable(target)
    /\ "get_components" \notin done
    /\ \E b \in StructValues(decls, decls[target].fields) :
          /\ bundle' = b
          /\ sunk' = RunGetComponents(impls, impls[target].get_code, b)
    /\ done' = done \cup {"get_components"}
    /\ UNCHANGED <<decls, impls, target, components, ids, casts, rebuilt>>
    /\ BundleFrame

\* The values the sink received are fed back, in order, to from_components.
CallFromComponents ==
    /\ Usable(target)
    /\ "get_components" \in done
    /\ "from_components" \notin done
    /\ Pulls(impls, impls[target].from_code) <= Len(sunk)
    /\ LET r == RunFromComponents(impls, impls[target].from_code,
                                  [stream |-> sunk, casts |-> <<>>, set |-> {}])
       IN /\ casts' = r.casts
          /\ rebuilt' = StructOf(r.set)
    /\ done' = done \cup {"from_components"}
    /\ UNCHANGED <<decls, impls, target, components, bundle, ids, sunk>>
    /\ BundleFrame

BundleNext ==
    \/ \E name \in Names : DeriveBundle(name)
    \/ CallComponentIds
    \/ CallGetComponents
    \/ CallFromComponents

(***************************************************************************)
(* Access sets.                                                            *)
(***************************************************************************)
Modes == {"Read", "Write"}
ComponentIds == 1 .. MaxComponentId
\* What an Access set can name: components and global resources.
AccessItems == ({"component"} \X ComponentIds) \cup {<<"resource", 1>>}

\* An Access is a set of <<item, mode>> pairs.
\* A check that only looks at the writes of its first argument.
Mut_conflicts_with(a, b) ==
    \E x \in a, y \in b : x[1] = y[1] /\ x[2] = "Write"
\* conflicts_with: the two share an item that at least one side writes.
conflicts_with(a, b) ==
    \E x \in a, y \in b : x[1] = y[1] /\ (x[2] = "Write" \/ y[2] = "Write")

AccessIdle == accA = {} /\ accB = {} /\ verdict = "none"

AccessFrame ==
    UNCHANGED <<bundleVars, paramVars, storeVars, batchVars, sysParamVars, tuplesVars>>

\* A read or a write of one item is declared on one of the two sides.
AddAccess(side, item, mode) ==
    /\ IF side = "A"
       THEN /\ <<item, mode>> \notin accA
            /\ accA' = accA \cup {<<item, mode>>}
            /\ accB' = accB
       ELSE /\ <<item, mode>> \notin accB
            /\ accB' = accB \cup {<<item, mode>>}
            /\ accA' = accA
    /\ verdict' = "none"
    /\ AccessFrame

\* The scheduler asks whether the two conflict.
CheckConflict ==
    /\ verdict = "none"
    /\ verdict' = IF conflicts_with(accA, accB) THEN "conflict" ELSE "compatible"
    /\ UNCHANGED <<accA, accB>>
    /\ AccessFrame

AccessNext ==
    \/ \E side \in {"A", "B"}, item \in AccessItems, mode \in Modes :
          AddAccess(side, item, mode)
    \/ CheckConflict

(***************************************************************************)
(* A system's parameters and ParamSetState (impl_param_set).               *)
(***************************************************************************)
\* lib.rs 212: max_params.
max_params == 8

EmptyMeta == [component_access_set |-> {}, archetype_component_access |-> {}]

\* The parameters of the model, each by the access its init records: a query
\* on one component (no archetype is known at init), a resource (which also
\* records its archetype component), and a parameter with no access.
\* Two ids are enough for parameters that overlap and parameters that do not.
ParamComponentIds == {1, 2}
Params ==
    [kind : {"Query"}, comp : {{<<c, m>>} : c \in ParamComponentIds, m \in Modes},
     arch : {{}}]
    \cup {[kind |-> "Res", comp |-> {<<c, m>>}, arch |-> {<<c, m>>}] :
             c \in ParamComponentIds, m \in Modes}
    \cup [kind : {"Local"}, comp : {{}}, arch : {{}}]

ParamSeqs == SeqsUpTo(Params, MaxSetParams) \ {<<>>}

\* SystemParamState::init of one parameter: it panics when its access
\* conflicts with what system_meta already holds, and records its access.
ParamInit(p, meta) ==
    IF conflicts_with(p.comp, meta.component_access_set)
    THEN [panic |-> TRUE, meta |-> meta]
    ELSE [panic |-> FALSE,
          meta |-> [component_access_set |-> meta.component_access_set \cup p.comp,
                    archetype_component_access |->
                        meta.archetype_component_access \cup p.arch]]

\* lib.rs 257-259: a clone of system_meta with both access sets cleared.
Cleared(meta) == [meta EXCEPT !.component_access_set = {},
                              !.archetype_component_access = {}]

\* lib.rs 257-260: the i-th parameter added to the system alone.
AloneInit(ps, i, sm) == ParamInit(ps[i], Cleared(sm))

\* What system_meta would hold had the first i sub-parameters been
\* initialised on it one after the other.
RECURSIVE Accumulated(_, _, _)
Accumulated(ps, i, sm) ==
    IF i = 0 THEN sm ELSE ParamInit(ps[i], Accumulated(ps, i - 1, sm)).meta

\* An init that hands each sub-parameter the cleared copy again.
Mut_CheckInitCleared(ps, i, sm) == ParamInit(ps[i], Cleared(sm))
\* An init that hands each sub-parameter system_meta itself, not a clone.
Mut_CheckInitShared(ps, i, sm) == ParamInit(ps[i], Accumulated(ps, i - 1, sm))
\* lib.rs 261: the i-th parameter's state, initialised on a clone of system_meta.
CheckInit(ps, i, sm) == ParamInit(ps[i], sm)

\* An init that assigns each sub-parameter's access instead of extending by it.
Mut_ExtendAll(sm, metas) == IF metas = <<>> THEN sm ELSE metas[Len(metas)]
\* lib.rs 263-270: system_meta extended by every m_i in turn.
RECURSIVE ExtendAll(_, _)
ExtendAll(sm, metas) ==
    IF metas = <<>> THEN sm
    ELSE ExtendAll(
           [component_access_set |->
                sm.component_access_set \cup Head(metas).component_access_set,
            archetype_component_access |->
                sm.archetype_component_access \cup Head(metas).archetype_component_access],
           Tail(metas))

\* lib.rs 254-272: ParamSetState::init.  A panic of any sub-parameter's init
\* unwinds out of it before system_meta is touched.
ParamSetStateInit(ps, sm) ==
    LET alone == [i \in 1 .. Len(ps) |-> AloneInit(ps, i, sm)]
        state == [i \in 1 .. Len(ps) |-> CheckInit(ps, i, sm)]
    IN IF \E i \in 1 .. Len(ps) : alone[i].panic \/ state[i].panic
       THEN [panic |-> TRUE, system_meta |-> sm, state |-> <<>>]
       ELSE [panic |-> FALSE,
             system_meta |-> ExtendAll(sm, [i \in 1 .. Len(ps) |-> alone[i].meta]),
             state |-> [i \in 1 .. Len(ps) |-> [param |-> ps[i]]]]

\* A weakened accessor signature: fn p_i<'a>(&'a self).
Mut_AccessorSelfBorrow == "shared"
\* lib.rs 221: fn p_i<'a>(&'a mut self) -> Item<'a, 'a>.
AccessorSelfBorrow == "mut"

\* The borrow rule the compiler applies to a call: an exclusive borrow of the
\* ParamSet needs every earlier borrow of it (each lasting as long as the item
\* it returned) to have ended; shared borrows may overlap.
BorrowAllowed(kind, items) == kind = "mut" => items = <<>>

ParamIdle ==
    /\ system_meta = EmptyMeta
    /\ n_prior = 0
    /\ meta_before = EmptyMeta
    /\ set_params = <<>>
    /\ set_status = "none"
    /\ param_states = <<>>
    /\ param_set = FALSE
    /\ live = <<>>

ParamFrame ==
    UNCHANGED <<bundleVars, accessVars, storeVars, batchVars, sysParamVars, tuplesVars>>

\* A parameter declared before the ParamSet is initialised on system_meta.
\* When it panics the system is never built, and no ParamSet is reached.
InitPriorParam(p) ==
    /\ set_status = "none"
    /\ n_prior < MaxPrior
    /\ ~ParamInit(p, system_meta).panic
    /\ system_meta' = ParamInit(p, system_meta).meta
    /\ n_prior' = n_prior + 1
    /\ UNCHANGED <<meta_before, set_params, set_status, param_states, param_set, live>>
    /\ ParamFrame

\* ParamSetState::init for the sub-parameters ps.
InitParamSet(ps) ==
    /\ set_status = "none"
    /\ Len(ps) <= max_params
    /\ LET r == ParamSetStateInit(ps, system_meta)
       IN /\ set_status' = IF r.panic THEN "panicked" ELSE "ok"
          /\ system_meta' = r.system_meta
          /\ param_states' = r.state
    /\ meta_before' = system_meta
    /\ set_params' = ps
    /\ UNCHANGED <<n_prior, param_set, live>>
    /\ ParamFrame

\* lib.rs 289-301: get_param hands the running system its ParamSet.
GetParam ==
    /\ set_status = "ok"
    /\ ~param_set
    /\ param_set' = TRUE
    /\ UNCHANGED <<system_meta, n_prior, meta_before, set_params, set_status,
                   param_states, live>>
    /\ ParamFrame

\* lib.rs 216-230: the accessor p_i returns the i-th sub-parameter's item.
CallAccessor(i) ==
    /\ param_set
    /\ i \in 1 .. Len(param_states)
    /\ Len(live) < MaxLive
    /\ BorrowAllowed(AccessorSelfBorrow, live)
    /\ live' = Append(live, i)
    /\ UNCHANGED <<system_meta, n_prior, meta_before, set_params, set_status,
                   param_states, param_set>>
    /\ ParamFrame

\* An item returned by an accessor goes out of use.
DropItem(k) ==
    /\ k \in 1 .. Len(live)
    /\ live' = [j \in 1 .. Len(live) - 1 |-> IF j < k THEN live[j] ELSE live[j + 1]]
    /\ UNCHANGED <<system_meta, n_prior, meta_before, set_params, set_status,
                   param_states, param_set>>
    /\ ParamFrame

\* The system's run ends and its ParamSet is dropped.
EndRun ==
    /\ param_set
    /\ live = <<>>
    /\ param_set' = FALSE
    /\ UNCHANGED <<system_meta, n_prior, meta_before, set_params, set_status,
                   param_states, live>>
    /\ ParamFrame

ParamNext ==
    \/ \E p \in Params : InitPriorParam(p)
    \/ \E ps \in ParamSeqs : InitParamSet(ps)
    \/ GetParam
    \/ \E i \in 1 .. max_params : CallAccessor(i)
    \/ \E k \in 1 .. MaxLive : DropItem(k)
    \/ EndRun

(***************************************************************************)
(* The archetype store.                                                    *)
(***************************************************************************)
\* The component types entities are made of.
StoreComponents == {"Position", "Velocity"}
\* An archetype is identified by its exact component set.
ComponentSets == SUBSET StoreComponents

\* entities: per allocated index its generation, whether it is alive, and its
\* EntityLocation (arch, row).  archetypes: per component set the entity list
\* row -> entity index; an archetype nothing ever needed has no rows.
EmptyWorld == [entities |-> <<>>, archetypes |-> [set \in ComponentSets |-> <<>>]]

\* An Entity handle is (index, generation).
Handle(i, g) == [index |-> i, generation |-> g]

\* A validity test that only asks whether the index is in use.
Mut_is_valid(w, e) == e.index <= Len(w.entities) /\ w.entities[e.index].alive
\* A handle is valid iff its generation is the store's current one for its index.
is_valid(w, e) ==
    e.index <= Len(w.entities) /\ w.entities[e.index].generation = e.generation

\* A swap-remove that leaves the moved entity's location as it was.
Mut_swap_remove(w, a, row) ==
    LET rows == w.archetypes[a]
        last == Len(rows)
    IN [w EXCEPT !.archetypes[a] =
           SubSeq(IF row = last THEN rows ELSE [rows EXCEPT ![row] = rows[last]],
                  1, last - 1)]
\* swap-remove of a row: the last row moves into the vacated slot and the
\* entity it belongs to gets its location updated; removing the last row is
\* a plain truncation.
swap_remove(w, a, row) ==
    LET rows == w.archetypes[a]
        last == Len(rows)
    IN IF row = last
       THEN [w EXCEPT !.archetypes[a] = SubSeq(rows, 1, last - 1)]
       ELSE [w EXCEPT !.archetypes[a] =
                         SubSeq([rows EXCEPT ![row] = rows[last]], 1, last - 1),
                      !.entities[rows[last]].row = row]

\* A new row for entity index i at the end of archetype a; i's location is set.
push_row(w, a, i) ==
    [w EXCEPT !.archetypes[a] = Append(@, i),
              !.entities[i].arch = a,
              !.entities[i].row = Len(w.archetypes[a]) + 1]

\* The entity at index i migrates to the archetype of component set `set`:
\* a row in the destination first, then the old row is swap-removed.
migrate(w, i, set) ==
    LET from == w.entities[i].arch
        old == w.entities[i].row
        placed == [w EXCEPT !.archetypes[set] = Append(@, i)]
        removed == swap_remove(placed, from, old)
    IN [removed EXCEPT !.entities[i].arch = set,
                       !.entities[i].row = Len(placed.archetypes[set])]

\* spawn at index i (a free index, or the next one): the row and the handle.
spawn(w, i, set) ==
    LET g == IF i <= Len(w.entities) THEN w.entities[i].generation ELSE 0
        slot == [generation |-> g, alive |-> TRUE, arch |-> {}, row |-> 0]
        w1 == [w EXCEPT !.entities =
                  IF i <= Len(w.entities) THEN [@ EXCEPT ![i] = slot] ELSE Append(@, slot)]
    IN [world |-> push_row(w1, set, i), entity |-> Handle(i, g)]

CurrentSet(w, i) == w.entities[i].arch

\* insert: in place when the set does not change, a migration otherwise.
insert(w, e, set) ==
    IF ~is_valid(w, e) THEN [world |-> w, result |-> "invalid"]
    ELSE IF set \subseteq CurrentSet(w, e.index) THEN [world |-> w, result |-> "ok"]
    ELSE [world |-> migrate(w, e.index, CurrentSet(w, e.index) \cup set), result |-> "ok"]

\* remove: nothing changes when none of the ids is present.
remove(w, e, set) ==
    IF ~is_valid(w, e) THEN [world |-> w, result |-> "invalid"]
    ELSE IF set \cap CurrentSet(w, e.index) = {} THEN [world |-> w, result |-> "noop"]
    ELSE [world |-> migrate(w, e.index, CurrentSet(w, e.index) \ set), result |-> "ok"]

\* despawn: the row is swap-removed and the index's generation goes up.
despawn(w, e) ==
    IF ~is_valid(w, e) THEN [world |-> w, result |-> "invalid"]
    ELSE LET i == e.index
             w1 == swap_remove(w, w.entities[i].arch, w.entities[i].row)
         IN [world |-> [w1 EXCEPT !.entities[i].alive = FALSE,
                                  !.entities[i].generation = @ + 1],
             result |-> "ok"]

FreeIndices(w) == {i \in 1 .. Len(w.entities) : ~w.entities[i].alive}
\* The index spawn takes: a free one if there is any, else the next one.
SpawnIndices(w) ==
    IF FreeIndices(w) # {} THEN FreeIndices(w) ELSE {Len(w.entities) + 1}

\* The entities other than i whose row changed between w and w2.
Relocated(w, w2, i) ==
    {j \in 1 .. Len(w.entities) :
        j # i /\ w.entities[j].alive /\ w2.entities[j].alive
              /\ w.entities[j].row # w2.entities[j].row}

\* What is kept of an operation: the entities it relocated and, when its
\* handle had been despawned before, its result and whether it changed the
\* store.
NoOp == [stale |-> FALSE, result |-> "none", changed |-> FALSE, moved |-> {}]
OpRecord(e, r) ==
    IF e \in despawned
    THEN [stale |-> TRUE, result |-> r.result, changed |-> r.world # world,
          moved |-> Relocated(world, r.world, e.index)]
    ELSE [NoOp EXCEPT !.moved = Relocated(world, r.world, e.index)]

StoreIdle ==
    /\ world = EmptyWorld
    /\ issued = {}
    /\ despawned = {}
    /\ assigned = [i \in 1 .. MaxEntities |-> {}]
    /\ last_op = NoOp

StoreFrame ==
    UNCHANGED <<bundleVars, paramVars, accessVars, batchVars, sysParamVars, tuplesVars>>

Spawn(set) ==
    /\ \E i \in SpawnIndices(world) :
          /\ i <= MaxEntities
          /\ LET r == spawn(world, i, set)
             IN /\ world' = r.world
                /\ issued' = issued \cup {r.entity}
                /\ assigned' = [assigned EXCEPT ![i] = set]
    /\ last_op' = NoOp
    /\ UNCHANGED despawned
    /\ StoreFrame

Insert(e, set) ==
    /\ LET r == insert(world, e, set)
       IN /\ world' = r.world
          /\ assigned' = IF r.result = "ok"
                         THEN [assigned EXCEPT ![e.index] = @ \cup set]
                         ELSE assigned
          /\ last_op' = OpRecord(e, r)
    /\ UNCHANGED <<issued, despawned>>
    /\ StoreFrame

Remove(e, set) ==
    /\ LET r == remove(world, e, set)
       IN /\ world' = r.world
          /\ assigned' = IF r.result = "ok"
                         THEN [assigned EXCEPT ![e.index] = @ \ set]
                         ELSE assigned
          /\ last_op' = OpRecord(e, r)
    /\ UNCHANGED <<issued, despawned>>
    /\ StoreFrame

\* The model stops despawning an index whose generation reached MaxGeneration.
Despawn(e) ==
    /\ world.entities[e.index].generation < MaxGeneration \/ ~is_valid(world, e)
    /\ LET r == despawn(world, e)
       IN /\ world' = r.world
          /\ despawned' = IF r.result = "ok" THEN despawned \cup {e} ELSE despawned
          /\ last_op' = OpRecord(e, r)
    /\ UNCHANGED <<issued, assigned>>
    /\ StoreFrame

StoreNext ==
    \/ \E set \in ComponentSets : Spawn(set)
    \/ \E e \in issued, set \in ComponentSets \ {{}} : Insert(e, set)
    \/ \E e \in issued, set \in ComponentSets \ {{}} : Remove(e, set)
    \/ \E e \in issued : Despawn(e)

(***************************************************************************)
(* batch_and_prepare_binned_render_phase (no_gpu_preprocessing.rs 79-140). *)
(***************************************************************************)
\* The batchable bin keys of the phase, in the order of phase.batchable_keys.
NumBins == Len(<<"bin1", "bin2">>)

\* The entity at position j of bin k; the unbatchable entities come after.
BinEntity(k, j) == 10 * k + j
Unbatchable(j) == 10 * (NumBins + 1) + j

Last(seq) == seq[Len(seq)]

\* GpuArrayBuffer::push: the instance gets the next index of the current
\* chunk; a chunk that is thereby full is flushed, so the next instance has
\* the next dynamic offset and index 0.  A storage buffer is never flushed.
\* `full` says whether this push filled the chunk.
BufferPush(buf, full) ==
    [instance |-> [index |-> buf.len, dynamic_offset |-> buf.offset],
     buffer |-> IF full
                THEN [offset |-> buf.offset + 1, len |-> 0, count |-> buf.count + 1]
                ELSE [offset |-> buf.offset, len |-> buf.len + 1, count |-> buf.count + 1]]

\* A batch is only ever started for the first entity of a bin.
Mut_StartsNewBatch(set, instance) == set = <<>>
\* no_gpu_preprocessing.rs 108-111: the instance does not continue the bin's
\* last batch.
StartsNewBatch(set, instance) ==
    ~(/\ set # <<>>
      /\ Last(set).instance_range.end = instance.index
      /\ Last(set).dynamic_offset = instance.dynamic_offset)

\* no_gpu_preprocessing.rs 112-116: the batch pushed for an instance.
NewBatch(entity, instance) ==
    [representative_entity |-> entity,
     instance_range |-> [start |-> instance.index, end |-> instance.index],
     dynamic_offset |-> instance.dynamic_offset]

\* The range end is only moved when the instance continues a batch.
Mut_AddInstance(set, entity, instance) ==
    IF StartsNewBatch(set, instance)
    THEN Append(set, NewBatch(entity, instance))
    ELSE [set EXCEPT ![Len(set)].instance_range.end = instance.index + 1]
\* no_gpu_preprocessing.rs 108-121: the batch set after an instance was pushed.
AddInstance(set, entity, instance) ==
    LET set1 == IF StartsNewBatch(set, instance)
                THEN Append(set, NewBatch(entity, instance))
                ELSE set
    IN IF set1 # <<>>
       THEN [set1 EXCEPT ![Len(set1)].instance_range.end = instance.index + 1]
       ELSE set1

BatchIdle ==
    /\ bins = [k \in 1 .. NumBins |-> <<>>]
    /\ unbatchables = <<>>
    /\ buffer = [offset |-> 0, len |-> 0, count |-> 0]
    /\ stage = "batchable"
    /\ key_i = 1
    /\ ent_i = 1
    /\ batch_set = <<>>
    /\ batch_sets = <<>>
    /\ buffer_indices = <<>>
    /\ pushes = <<>>
    /\ skipped = {}

\* The phase as the system finds it: every bin with up to MaxBinEntities
\* entities, and the buffer somewhere in a chunk.
BatchStart ==
    /\ \E size \in [1 .. NumBins -> 0 .. MaxBinEntities] :
          bins = [k \in 1 .. NumBins |-> [j \in 1 .. size[k] |-> BinEntity(k, j)]]
    /\ unbatchables \in {<<>>, <<Unbatchable(1)>>}
    /\ buffer \in {[offset |-> 0, len |-> l, count |-> 0] : l \in {0, 1}}
    /\ stage = "batchable"
    /\ key_i = 1
    /\ ent_i = 1
    /\ batch_set = <<>>
    /\ batch_sets = <<>>
    /\ buffer_indices = <<>>
    /\ pushes = <<>>
    /\ skipped = {}

BatchFrame ==
    UNCHANGED <<bundleVars, paramVars, accessVars, storeVars, sysParamVars, tuplesVars>>

\* no_gpu_preprocessing.rs 96-100: get_binned_batch_data has nothing for the
\* entity and the loop goes on to the next.
SkipBatchable ==
    /\ stage = "batchable"
    /\ ent_i <= Len(bins[key_i])
    /\ skipped' = skipped \cup {bins[key_i][ent_i]}
    /\ ent_i' = ent_i + 1
    /\ UNCHANGED <<bins, unbatchables, buffer, stage, key_i, batch_set, batch_sets,
                   buffer_indices, pushes>>
    /\ BatchFrame

\* no_gpu_preprocessing.rs 96-122: one entity of the bin with batch data.
BatchEntity(full) ==
    /\ stage = "batchable"
    /\ ent_i <= Len(bins[key_i])
    /\ LET entity == bins[key_i][ent_i]
           r == BufferPush(buffer, full)
       IN /\ buffer' = r.buffer
          /\ batch_set' = AddInstance(batch_set, entity, r.instance)
          /\ pushes' = Append(pushes, [bin |-> key_i, entity |-> entity,
                                       index |-> r.instance.index,
                                       dynamic_offset |-> r.instance.dynamic_offset])
    /\ ent_i' = ent_i + 1
    /\ UNCHANGED <<bins, unbatchables, stage, key_i, batch_sets, buffer_indices, skipped>>
    /\ BatchFrame

\* no_gpu_preprocessing.rs 124: the bin's batch set is pushed and the outer
\* loop goes to the next key, or on to the unbatchables.
EndBin ==
    /\ stage = "batchable"
    /\ ent_i > Len(bins[key_i])
    /\ batch_sets' = Append(batch_sets, batch_set)
    /\ batch_set' = <<>>
    /\ ent_i' = 1
    /\ IF key_i < NumBins
       THEN key_i' = key_i + 1 /\ stage' = stage
       ELSE key_i' = key_i /\ stage' = "unbatchable"
    /\ UNCHANGED <<bins, unbatchables, buffer, buffer_indices, pushes, skipped>>
    /\ BatchFrame

\* no_gpu_preprocessing.rs 128-138: one unbatchable entity.
UnbatchableEntity(data, full) ==
    /\ stage = "unbatchable"
    /\ ent_i <= Len(unbatchables)
    /\ IF data
       THEN LET r == BufferPush(buffer, full)
            IN /\ buffer' = r.buffer
               /\ buffer_indices' = Append(buffer_indices, r.instance)
               /\ pushes' = Append(pushes, [bin |-> 0, entity |-> unbatchables[ent_i],
                                            index |-> r.instance.index,
                                            dynamic_offset |-> r.instance.dynamic_offset])
               /\ skipped' = skipped
       ELSE /\ skipped' = skipped \cup {unbatchables[ent_i]}
            /\ UNCHANGED <<buffer, buffer_indices, pushes>>
    /\ ent_i' = ent_i + 1
    /\ UNCHANGED <<bins, unbatchables, stage, key_i, batch_set, batch_sets>>
    /\ BatchFrame

\* The system returns.
EndPhase ==
    /\ stage = "unbatchable"
    /\ ent_i > Len(unbatchables)
    /\ stage' = "done"
    /\ UNCHANGED <<bins, unbatchables, buffer, key_i, ent_i, batch_set, batch_sets,
                   buffer_indices, pushes, skipped>>
    /\ BatchFrame

BatchNext ==
    \/ SkipBatchable
    \/ \E full \in BOOLEAN : BatchEntity(full)
    \/ EndBin
    \/ \E data \in BOOLEAN, full \in BOOLEAN : UnbatchableEntity(data, full)
    \/ EndPhase

(***************************************************************************)
(* derive(SystemParam) (lib.rs 323-449).                                   *)
(***************************************************************************)
\* A field of the struct: a system parameter, or a field marked
\* #[system_param(ignore)].
ParamFieldKinds ==
    {[ty |-> "Query", ignore |-> FALSE],
     [ty |-> "Res", ignore |-> FALSE],
     [ty |-> "PhantomData", ignore |-> TRUE]}

\* The items the derive may be put on; the field identifiers are the
\* positions of the fields.
SystemParamInputs ==
    {[kind |-> k, fields |-> <<>>] : k \in {"tuple_struct", "enum"}}
    \cup {[kind |-> "struct", fields |-> f] : f \in SeqsUpTo(ParamFieldKinds, MaxParamFields)}

\* lib.rs 364, 373: Index::from(i), i counting every field from 0.
FieldIndex(fs, i) == i - 1

RECURSIVE Collect(_, _)
\* lib.rs 359-375: the five vectors after the fields up to n were visited.
Collect(fs, n) ==
    IF n = 0
    THEN [fields |-> <<>>, field_indices |-> <<>>, field_types |-> <<>>,
          ignored_fields |-> <<>>, ignored_field_types |-> <<>>]
    ELSE LET c == Collect(fs, n - 1)
         IN IF fs[n].ignore
            THEN [c EXCEPT !.ignored_fields = Append(@, n),
                           !.ignored_field_types = Append(@, fs[n].ty)]
            ELSE [c EXCEPT !.fields = Append(@, n),
                           !.field_types = Append(@, fs[n].ty),
                           !.field_indices = Append(@, FieldIndex(fs, n))]

\* lib.rs 407: the members of the state tuple, <field_type as SystemParam>::Fetch.
FetchTuple(gen) == [k \in 1 .. Len(gen.field_types) |-> gen.field_types[k]]

\* lib.rs 442: state.state.N names a member of the tuple, and that member is
\* the Fetch of the field's type; otherwise the generated impl does not
\* compile.
GeneratedCompiles(gen) ==
    \A k \in 1 .. Len(gen.fields) :
        /\ gen.field_indices[k] < Len(FetchTuple(gen))
        /\ FetchTuple(gen)[gen.field_indices[k] + 1] = gen.field_types[k]

NoGen ==
    [fields |-> <<>>, field_indices |-> <<>>, field_types |-> <<>>,
     ignored_fields |-> <<>>, ignored_field_types |-> <<>>]

SystemParamIdle ==
    /\ sp_ast = [kind |-> "struct", fields |-> <<>>]
    /\ sp_gen = NoGen
    /\ sp_state = <<>>
    /\ sp_item = <<>>
    /\ sp_pc = "input"

SystemParamStart ==
    /\ sp_ast \in SystemParamInputs
    /\ sp_gen = NoGen
    /\ sp_state = <<>>
    /\ sp_item = <<>>
    /\ sp_pc = "input"

SystemParamFrame ==
    UNCHANGED <<bundleVars, paramVars, accessVars, storeVars, batchVars, tuplesVars>>

\* lib.rs 326-329: not a struct with named fields.
RejectSystemParam ==
    /\ sp_pc = "input"
    /\ sp_ast.kind # "struct"
    /\ sp_pc' = "rejected"
    /\ UNCHANGED <<sp_ast, sp_gen, sp_state, sp_item>>
    /\ SystemParamFrame

\* lib.rs 324-449: the macro emits the impls.
derive_system_param ==
    /\ sp_pc = "input"
    /\ sp_ast.kind = "struct"
    /\ sp_gen' = Collect(sp_ast.fields, Len(sp_ast.fields))
    /\ sp_pc' = "derived"
    /\ UNCHANGED <<sp_ast, sp_state, sp_item>>
    /\ SystemParamFrame

\* The generated impl is compiled (lib.rs 433-446).
CompileGenerated ==
    /\ sp_pc = "derived"
    /\ sp_pc' = IF GeneratedCompiles(sp_gen) THEN "compiled" ELSE "compile_error"
    /\ UNCHANGED <<sp_ast, sp_gen, sp_state, sp_item>>
    /\ SystemParamFrame

\* lib.rs 417-422: FetchState::init initialises every member of the tuple;
\* member k is the state of the k-th field that is not ignored.
InitFetchState ==
    /\ sp_pc = "compiled"
    /\ sp_state' = [k \in 1 .. Len(FetchTuple(sp_gen)) |->
                       [fetch |-> FetchTuple(sp_gen)[k], field |-> sp_gen.fields[k]]]
    /\ sp_pc' = "initialised"
    /\ UNCHANGED <<sp_ast, sp_gen, sp_item>>
    /\ SystemParamFrame

\* lib.rs 435-445: get_param builds the struct.
GetSystemParam ==
    /\ sp_pc = "initialised"
    /\ sp_item' =
          [i \in 1 .. Len(sp_ast.fields) |->
              IF \E k \in 1 .. Len(sp_gen.fields) : sp_gen.fields[k] = i
              THEN LET k == CHOOSE k \in 1 .. Len(sp_gen.fields) : sp_gen.fields[k] = i
                   IN [from |-> "state", state |-> sp_state[sp_gen.field_indices[k] + 1]]
              ELSE [from |-> "default", state |-> [fetch |-> "none", field |-> 0]]]
    /\ sp_pc' = "got"
    /\ UNCHANGED <<sp_ast, sp_gen, sp_state>>
    /\ SystemParamFrame

SystemParamNext ==
    \/ RejectSystemParam
    \/ derive_system_param
    \/ CompileGenerated
    \/ InitFetchState
    \/ GetSystemParam

(***************************************************************************)
(* all_tuples! (lib.rs 19-81).                                             *)
(***************************************************************************)
\* lib.rs 26-46: what parses as AllTuples; at least one identifier.
AllTuplesInputs ==
    {[macro_ident |-> "impl_m", start |-> a, end |-> b, idents |-> names] :
        a \in 0 .. MaxTupleEnd, b \in 0 .. MaxTupleEnd,
        names \in SeqsUpTo({"P", "p"}, MaxIdents) \ {<<>>}}

\* lib.rs 56: format_ident!("{}{}", ident, i).
format_ident(ident, i) == [ident |-> ident, suffix |-> i]

\* lib.rs 52-66: the token tree pushed for i, bare for fewer than two
\* identifiers and a parenthesised tuple otherwise.
IdentTuple(idents, i) ==
    [paren |-> ~(Len(idents) < 2),
     idents |-> [x \in 1 .. Len(idents) |-> format_ident(idents[x], i)]]

\* lib.rs 51-67: ident_tuples after the loop over start..=end.
IdentTuples(in) ==
    [x \in 1 .. (in.end - in.start + 1) |-> IdentTuple(in.idents, in.start + x - 1)]

\* The slice taken with its end included.
Mut_InvocationArgs(ident_tuples, n) == SubSeq(ident_tuples, 1, n + 1)
\* lib.rs 71: &ident_tuples[0..n], n being i - input.start.
InvocationArgs(ident_tuples, n) == SubSeq(ident_tuples, 1, n)

\* lib.rs 70-75: one invocation per i of start..=end.
Invocations(in) ==
    [x \in 1 .. (in.end - in.start + 1) |->
        [macro_ident |-> in.macro_ident,
         args |-> InvocationArgs(IdentTuples(in), (in.start + x - 1) - in.start)]]

AllTuplesIdle ==
    /\ at_input = [macro_ident |-> "impl_m", start |-> 0, end |-> 0, idents |-> <<"P">>]
    /\ at_output = <<>>
    /\ at_pc = "input"

AllTuplesStart ==
    /\ at_input \in AllTuplesInputs
    /\ at_output = <<>>
    /\ at_pc = "input"

AllTuplesFrame ==
    UNCHANGED <<bundleVars, paramVars, accessVars, storeVars, batchVars, sysParamVars>>

\* lib.rs 49-81: the macro expands.
all_tuples ==
    /\ at_pc = "input"
    /\ at_input.start <= at_input.end
    /\ at_output' = Invocations(at_input)
    /\ at_pc' = "expanded"
    /\ UNCHANGED at_input
    /\ AllTuplesFrame

\* lib.rs 50-51: end - start of usize with start > end overflows: a panic
\* with overflow checks, and without them a capacity no Vec can have.
AllTuplesPanic ==
    /\ at_pc = "input"
    /\ at_input.start > at_input.end
    /\ at_pc' = "panicked"
    /\ UNCHANGED <<at_input, at_output>>
    /\ AllTuplesFrame

AllTuplesNext ==
    \/ all_tuples
    \/ AllTuplesPanic

(***************************************************************************)
(* The specifications.                                                     *)
(***************************************************************************)
BundleInit ==
    BundleStart /\ ParamIdle /\ AccessIdle /\ StoreIdle /\ BatchIdle /\ SystemParamIdle /\ AllTuplesIdle
SpecBundle == BundleInit /\ [][BundleNext]_vars

ParamInitial ==
    ParamIdle /\ BundleIdle /\ AccessIdle /\ StoreIdle /\ BatchIdle /\ SystemParamIdle /\ AllTuplesIdle
SpecParamSet == ParamInitial /\ [][ParamNext]_vars

AccessInit ==
    AccessIdle /\ BundleIdle /\ ParamIdle /\ StoreIdle /\ BatchIdle /\ SystemParamIdle /\ AllTuplesIdle
SpecAccess == AccessInit /\ [][AccessNext]_vars

StoreInit ==
    StoreIdle /\ BundleIdle /\ ParamIdle /\ AccessIdle /\ BatchIdle /\ SystemParamIdle /\ AllTuplesIdle
SpecStore == StoreInit /\ [][StoreNext]_vars

BatchInit ==
    /\ BatchStart /\ BundleIdle /\ ParamIdle /\ AccessIdle /\ StoreIdle
    /\ SystemParamIdle /\ AllTuplesIdle
SpecBatch == BatchInit /\ [][BatchNext]_vars

SystemParamInit ==
    /\ SystemParamStart /\ BundleIdle /\ ParamIdle /\ AccessIdle /\ StoreIdle
    /\ BatchIdle /\ AllTuplesIdle
SpecSystemParam == SystemParamInit /\ [][SystemParamNext]_vars

AllTuplesInit ==
    /\ AllTuplesStart /\ BundleIdle /\ ParamIdle /\ AccessIdle /\ StoreIdle
    /\ BatchIdle /\ SystemParamIdle
SpecAllTuples == AllTuplesInit /\ [][AllTuplesNext]_vars

(***************************************************************************)
(* Claims on derive(Bundle), checked under SpecBundle.                     *)
(***************************************************************************)
\* The component types of a field list in field-definition order, each
\* #[bundle] field replaced in place by its own struct's types.
RECURSIVE FlatTypes(_)
FlatTypes(fields) ==
    IF fields = <<>> THEN <<>>
    ELSE (IF Head(fields).is_bundle THEN FlatTypes(decls[Head(fields).ty].fields)
          ELSE <<Head(fields).ty>>) \o FlatTypes(Tail(fields))

IdTypes == [i \in 1 .. Len(ids) |-> components[ids[i]]]
SunkTypes == [i \in 1 .. Len(sunk) |-> sunk[i].ty]
PulledTypes == [i \in 1 .. Len(casts) |-> casts[i][1]]
ReadAsTypes == [i \in 1 .. Len(casts) |-> casts[i][2]]

\* C1: component_ids, get_components and from_components of an accepted
\* struct all walk the fields in field-definition order with nested bundles
\* expanded in place: the i-th ComponentId is the id of the type of the i-th
\* value handed to the sink, and of the type the i-th pulled value is read as.
C1_SameFieldOrder ==
    /\ "component_ids" \in done =>
          /\ IdTypes = FlatTypes(decls[target].fields)
          /\ \A i \in 1 .. Len(ids) : init_component(components, IdTypes[i]).id = ids[i]
    /\ "get_components" \in done => SunkTypes = FlatTypes(decls[target].fields)
    /\ "from_components" \in done =>
          /\ ReadAsTypes = FlatTypes(decls[target].fields)
          /\ PulledTypes = ReadAsTypes
    /\ {"component_ids", "get_components", "from_components"} \subseteq done =>
          /\ Len(ids) = Len(sunk) /\ Len(ids) = Len(casts)
          /\ \A i \in 1 .. Len(ids) :
                /\ components[ids[i]] = sunk[i].ty
                /\ components[ids[i]] = casts[i][2]

\* A struct mixing a plain field and a flattened bundle went through all
\* three calls.
C1_Witness ==
    /\ {"component_ids", "get_components", "from_components"} \subseteq done
    /\ target = "Outer"
    /\ Len(decls["Outer"].fields) = 2
    /\ decls["Outer"].fields[1].is_bundle
    /\ ~decls["Outer"].fields[2].is_bundle
    /\ Len(ids) = 3
    /\ ids[1] # ids[2]

\* C2 as amended: a struct with at least one field always gets its impl,
\* and feeding get_components' values in emission order to from_components
\* rebuilds every field of the original bundle.
C2_RoundTrip ==
    /\ \A n \in Names :
          (impls[n].status # "pending" /\ decls[n].kind = "Struct"
              /\ decls[n].fields # <<>>) => impls[n].status = "ok"
    /\ "from_components" \in done => rebuilt = bundle

\* A nested bundle whose fields carry different payloads was rebuilt.
C2_Witness ==
    /\ "from_components" \in done
    /\ target = "Outer"
    /\ Len(bundle) = 2
    /\ Len(bundle[1].fields) = 2
    /\ bundle[1].fields[1].v # bundle[1].fields[2].v
    /\ bundle[1].fields[1].ty = bundle[1].fields[2].ty
    /\ rebuilt = bundle

\* C2 as stated: the round trip holds for every struct, the zero-field one
\* included, so every struct derive(Bundle) was put on has a Bundle impl whose
\* round trip reproduces the value.
C2_RoundTripAnyStruct ==
    /\ \A n \in Names :
          (impls[n].status # "pending" /\ decls[n].kind = "Struct")
              => impls[n].status = "ok"
    /\ "from_components" \in done => rebuilt = bundle

\* C3: derive(Bundle) on anything but a struct with at least one field ends
\* in the error and emits no part of a Bundle impl; nothing is ever called
\* on such a type.
C3_MalformedRejected ==
    /\ \A n \in Names :
          (impls[n].status # "pending"
              /\ ~(decls[n].kind = "Struct" /\ Len(decls[n].fields) >= 1))
          => impls[n] = [status |-> "error", cid_code |-> <<>>,
                         get_code |-> <<>>, from_code |-> <<>>]
    /\ done # {} => (decls[target].kind = "Struct" /\ Len(decls[target].fields) >= 1)

\* Both a field-less struct and an enum have been through the derive.
C3_Witness ==
    /\ decls["Inner"].kind = "Struct" /\ decls["Inner"].fields = <<>>
    /\ impls["Inner"].status = "error"
    /\ decls["Outer"].kind = "Enum"
    /\ impls["Outer"].status = "error"

(***************************************************************************)
(* Claims on ParamSet, checked under SpecParamSet.                         *)
(***************************************************************************)
\* The access sub-parameter p records when it is initialised alone against
\* an empty access.
AccessAlone(p) == ParamInit(p, EmptyMeta).meta

SetIndices == 1 .. Len(set_params)

\* C4: after a successful ParamSetState::init both access sets of the system
\* are what they were before the call, united with what every sub-parameter
\* records alone; nothing is removed and no sub-parameter is left out.
C4_AccessIsUnion ==
    set_status = "ok" =>
       /\ system_meta.component_access_set =
             meta_before.component_access_set
               \cup UNION {AccessAlone(set_params[i]).component_access_set : i \in SetIndices}
       /\ system_meta.archetype_component_access =
             meta_before.archetype_component_access
               \cup UNION {AccessAlone(set_params[i]).archetype_component_access :
                              i \in SetIndices}

\* Two sub-parameters with different accesses, one of them a resource, were
\* added to a system that already held access.
C4_Witness ==
    /\ set_status = "ok"
    /\ Len(set_params) = 2
    /\ meta_before.component_access_set # {}
    /\ meta_before.archetype_component_access # {}
    /\ set_params[1].comp # set_params[2].comp
    /\ set_params[1].comp # {} /\ set_params[2].comp # {}
    /\ set_params[1].kind = "Res" /\ set_params[2].kind = "Query"
    /\ ~(set_params[1].comp \subseteq meta_before.component_access_set)
    /\ ~(set_params[2].comp \subseteq meta_before.component_access_set)

\* C5: when a sub-parameter conflicts with access the system recorded before
\* the ParamSet, ParamSetState::init panics: no state is produced, the system's
\* access is left as it was and get_param (hence any accessor) is never reached.
C5_SelfConflictRejectedAtInit ==
    (set_status # "none"
       /\ \E i \in SetIndices :
             conflicts_with(set_params[i].comp, meta_before.component_access_set))
    => /\ set_status = "panicked"
       /\ param_states = <<>>
       /\ system_meta = meta_before
       /\ ~param_set
       /\ live = <<>>

\* Only the second sub-parameter conflicted with the earlier access.
C5_Witness ==
    /\ set_status = "panicked"
    /\ Len(set_params) = 2
    /\ ~conflicts_with(set_params[1].comp, meta_before.component_access_set)
    /\ conflicts_with(set_params[2].comp, meta_before.component_access_set)

\* C9: sub-parameters are not checked against each other: init succeeds, with
\* one state per sub-parameter, whenever none of them conflicts with the
\* system's earlier access, however they conflict among themselves.
C9_NoMutualCheck ==
    (set_status # "none"
       /\ \A i \in SetIndices :
             ~conflicts_with(set_params[i].comp, meta_before.component_access_set))
    => /\ set_status = "ok"
       /\ Len(param_states) = Len(set_params)

\* Two queries writing the same component were accepted in one ParamSet.
C9_Witness ==
    /\ set_status = "ok"
    /\ Len(set_params) = 2
    /\ set_params[1].kind = "Query" /\ set_params[2].kind = "Query"
    /\ set_params[1].comp = {<<1, "Write">>}
    /\ set_params[2].comp = {<<1, "Write">>}
    /\ conflicts_with(set_params[1].comp, set_params[2].comp)

\* C10: at most one item obtained from the ParamSet is alive at any moment,
\* and only while the ParamSet itself is.
C10_OneItemLive ==
    /\ Len(live) <= 1
    /\ live # <<>> => param_set

\* The second of two mutually conflicting sub-parameters is in use.
C10_Witness ==
    /\ Len(live) = 1 /\ live[1] = 2
    /\ param_set
    /\ Len(set_params) = 2
    /\ conflicts_with(set_params[1].comp, set_params[2].comp)

(***************************************************************************)
(* Claim on Access, checked under SpecAccess.                              *)
(***************************************************************************)
ItemsOf(acc) == {x[1] : x \in acc}
Writes(acc, item) == <<item, "Write">> \in acc

\* C6: two Access sets that share no item do not conflict; they conflict
\* whenever they share an item that at least one of them writes; sharing
\* items that both only read is no conflict.
C6_ConflictIffSharedWrite ==
    verdict # "none" =>
       LET shared == ItemsOf(accA) \cap ItemsOf(accB)
       IN /\ shared = {} => verdict = "compatible"
          /\ (\E i \in shared : Writes(accA, i) \/ Writes(accB, i)) => verdict = "conflict"
          /\ (\A i \in shared : ~Writes(accA, i) /\ ~Writes(accB, i))
                => verdict = "compatible"

\* A conflict found on an item only the second side writes, next to items
\* that are not shared.
C6_Witness ==
    /\ verdict = "conflict"
    /\ ItemsOf(accA) \cap ItemsOf(accB) = {<<"component", 1>>}
    /\ ~Writes(accA, <<"component", 1>>)
    /\ Writes(accB, <<"component", 1>>)
    /\ <<"resource", 1>> \in ItemsOf(accA)

(***************************************************************************)
(* Claims on the archetype store, checked under SpecStore.                 *)
(***************************************************************************)
LiveIndices == {i \in 1 .. Len(world.entities) : world.entities[i].alive}

\* C7: after any sequence of spawn, insert, remove and despawn, the location
\* of every live entity names the archetype of exactly the component set last
\* assigned to it, and a row of that archetype holding this entity; so does
\* the location of an entity a swap-remove has moved.
C7_LocationMatchesAssigned ==
    \A i \in LiveIndices :
       LET m == world.entities[i]
       IN /\ m.arch = assigned[i]
          /\ m.row \in 1 .. Len(world.archetypes[m.arch])
          /\ world.archetypes[m.arch][m.row] = i

\* The last operation's swap-remove moved another, still live, entity.
C7_Witness ==
    /\ last_op.moved # {}
    /\ \A j \in last_op.moved :
          /\ j \in LiveIndices
          /\ world.archetypes[world.entities[j].arch][world.entities[j].row] = j

\* C8: an operation made with a handle despawn has succeeded on reports
\* invalidity and leaves the store as it was, whether or not the index has
\* been given to a new entity since.
C8_StaleHandleRejected ==
    last_op.stale => (last_op.result = "invalid" /\ ~last_op.changed)

\* A despawned handle was used while every index of the store, its own
\* included, was held by a later entity.
C8_Witness ==
    /\ last_op.stale
    /\ last_op.result = "invalid"
    /\ Len(world.entities) = MaxEntities
    /\ \A i \in 1 .. MaxEntities :
          world.entities[i].alive /\ world.entities[i].generation >= 1


(***************************************************************************)
(* Claims about batch_and_prepare_binned_render_phase.                     *)
(***************************************************************************)
\* The pushes made for the entities of bin k, in order.
BinPushes(k) == SelectSeq(pushes, LAMBDA p : p.bin = k)

\* The batch sets built so far, the one in preparation included.
BatchSetOf(k) == IF k <= Len(batch_sets) THEN batch_sets[k] ELSE batch_set
BinsBegun == IF stage = "batchable" THEN 1 .. key_i ELSE 1 .. NumBins

\* The positions of P whose instance does not continue the one before it.
Breaks(P) ==
    {i \in 1 .. Len(P) :
        \/ i = 1
        \/ P[i].dynamic_offset # P[i - 1].dynamic_offset
        \/ P[i].index # P[i - 1].index + 1}

\* The instances of a batch, each as a pair of dynamic offset and index.
Instances(b) ==
    {<<b.dynamic_offset, x>> : x \in b.instance_range.start .. b.instance_range.end - 1}

RECURSIVE SumLengths(_)
SumLengths(set) ==
    IF set = <<>> THEN 0
    ELSE (Last(set).instance_range.end - Last(set).instance_range.start)
         + SumLengths(SubSeq(set, 1, Len(set) - 1))

\* C11: a bin has one batch per dynamic offset its instances were pushed
\* under: two entities of the bin whose instances share the dynamic offset
\* are in the same batch, and the batches start exactly at the entities whose
\* instance has another dynamic offset than, or an index that is not the
\* range end of, the bin's last batch.
C11_BatchPerDynamicOffset ==
    \A k \in BinsBegun :
        LET P == BinPushes(k)
            set == BatchSetOf(k)
        IN /\ Len(set) = Cardinality({P[i].dynamic_offset : i \in 1 .. Len(P)})
           /\ \A i, j \in 1 .. Len(P) :
                 P[i].dynamic_offset = P[j].dynamic_offset =>
                    \E b \in 1 .. Len(set) :
                        {<<P[i].dynamic_offset, P[i].index>>,
                         <<P[j].dynamic_offset, P[j].index>>} \subseteq Instances(set[b])
           /\ {set[b].representative_entity : b \in 1 .. Len(set)}
                 = {P[i].entity : i \in Breaks(P)}
           /\ Len(set) = Cardinality(Breaks(P))

\* A finished bin of three instances in two batches: the dynamic offset
\* changed once, and two entities share a batch.
C11_Witness ==
    \E k \in 1 .. Len(batch_sets) :
        /\ Len(batch_sets[k]) = 2
        /\ Len(BinPushes(k)) > 2

\* C12 as stated: the instance ranges of a bin's batches are non-empty and
\* pairwise disjoint as ranges of indices, and hold what was pushed.
C12_RangesDisjoint ==
    \A k \in BinsBegun :
        LET set == BatchSetOf(k)
        IN /\ \A b \in 1 .. Len(set) :
                 set[b].instance_range.start < set[b].instance_range.end
           /\ \A a, b \in 1 .. Len(set) :
                 a # b =>
                    (set[a].instance_range.start .. set[a].instance_range.end - 1)
                       \cap (set[b].instance_range.start .. set[b].instance_range.end - 1) = {}
           /\ SumLengths(set) = Len(BinPushes(k))

\* C12: the batches of a bin have non-empty instance ranges that are pairwise
\* disjoint as sets of (dynamic offset, index) and together hold exactly the
\* instances pushed for the bin's entities; the range lengths sum to the
\* number of the bin's entities with batch data, the representative entity of
\* a batch is the entity pushed at its range start, and an entity without
\* batch data causes no push and is in no range.
C12_RangesPartitionPushes ==
    /\ buffer.count = Len(pushes)
    /\ \A p \in {pushes[i] : i \in 1 .. Len(pushes)} : p.entity \notin skipped
    /\ \A k \in BinsBegun :
        LET P == BinPushes(k)
            set == BatchSetOf(k)
        IN /\ \A b \in 1 .. Len(set) :
                 /\ set[b].instance_range.start < set[b].instance_range.end
                 /\ \E i \in 1 .. Len(P) :
                       /\ P[i].entity = set[b].representative_entity
                       /\ P[i].index = set[b].instance_range.start
                       /\ P[i].dynamic_offset = set[b].dynamic_offset
           /\ \A a, b \in 1 .. Len(set) : a # b => Instances(set[a]) \cap Instances(set[b]) = {}
           /\ UNION {Instances(set[b]) : b \in 1 .. Len(set)}
                 = {<<P[i].dynamic_offset, P[i].index>> : i \in 1 .. Len(P)}
           /\ SumLengths(set) = Len(P)
           /\ Len(P) + Cardinality(skipped \cap {bins[k][j] : j \in 1 .. Len(bins[k])})
                 = IF k <= Len(batch_sets) THEN Len(bins[k]) ELSE ent_i - 1

\* A finished bin whose second entity had no batch data, and whose first and
\* third entity are in two batches under two dynamic offsets, with ranges that
\* share an index.
C12_Witness ==
    \E k \in 1 .. Len(batch_sets) :
        /\ Len(bins[k]) > 2
        /\ bins[k][2] \in skipped
        /\ Len(batch_sets[k]) = 2
        /\ batch_sets[k][1].dynamic_offset # batch_sets[k][2].dynamic_offset
        /\ batch_sets[k][1].instance_range = batch_sets[k][2].instance_range
        /\ SumLengths(batch_sets[k]) = 2


(***************************************************************************)
(* Claim about derive(SystemParam).                                        *)
(***************************************************************************)
\* The members of the state tuple the generated get_param reads, per field
\* that is not ignored.
IndicesUsed == sp_gen.field_indices

\* C13: for every struct derive(SystemParam) emits the impls for, whatever
\* the positions of its ignored fields, the generated get_param reads for
\* each field that is not ignored the member of the state tuple at the
\* field's place among the fields that are not ignored, which is the member
\* initialised for that field, and gives every ignored field its default
\* without reading the state.
C13_FieldFromOwnState ==
    /\ sp_pc \in {"derived", "compile_error", "compiled", "initialised", "got"} =>
          /\ IndicesUsed = [k \in 1 .. Len(sp_gen.fields) |-> k - 1]
          /\ \A k \in 1 .. Len(sp_gen.fields) :
                /\ IndicesUsed[k] < Len(FetchTuple(sp_gen))
                /\ FetchTuple(sp_gen)[IndicesUsed[k] + 1] = sp_gen.field_types[k]
    /\ sp_pc = "got" =>
          \A i \in 1 .. Len(sp_ast.fields) :
              IF sp_ast.fields[i].ignore
              THEN sp_item[i].from = "default"
              ELSE sp_item[i].from = "state" /\ sp_item[i].state.field = i

\* A struct with an ignored field before a system parameter: the impls were
\* emitted and do not compile.
C13_Witness ==
    /\ sp_pc = "compile_error"
    /\ \E i, j \in 1 .. Len(sp_ast.fields) :
          i < j /\ sp_ast.fields[i].ignore /\ ~sp_ast.fields[j].ignore


(***************************************************************************)
(* Claim about all_tuples!.                                                *)
(***************************************************************************)
\* The j-th argument as the claim describes it: every identifier suffixed
\* with start + j, in parentheses for two identifiers or more.
ExpectedArg(j) ==
    [paren |-> Len(at_input.idents) >= 2,
     idents |-> [x \in 1 .. Len(at_input.idents) |->
                    [ident |-> at_input.idents[x], suffix |-> at_input.start + j]]]

\* C14: with start <= end, all_tuples! emits end - start + 1 invocations of
\* the macro; the n-th (from 0) has exactly n arguments whatever start is, and
\* its j-th argument (from 0) is the identifiers suffixed with start + j, as a
\* parenthesised tuple for two identifiers or more and bare for one.
C14_InvocationShape ==
    at_pc = "expanded" =>
        /\ at_input.start <= at_input.end
        /\ Len(at_output) = at_input.end - at_input.start + 1
        /\ \A n \in 0 .. at_input.end - at_input.start :
              /\ at_output[n + 1].macro_ident = at_input.macro_ident
              /\ Len(at_output[n + 1].args) = n
              /\ \A j \in 0 .. n - 1 : at_output[n + 1].args[j + 1] = ExpectedArg(j)

\* An expansion with start above 0, three invocations or more and two
\* identifiers.
C14_Witness ==
    /\ at_pc = "expanded"
    /\ at_input.start > 0
    /\ Len(at_output) >= 3
    /\ Len(at_input.idents) = 2
    /\ Len(at_output[3].args) = 2

====
